---- MODULE Spec2Model ----
(***************************************************************************)
(* Model of the e-mail classification engine of Mail_execute:              *)
(*   backend/app/services/email_classifier.py  (EmailClassifier)           *)
(*   backend/app/services/openai_service.py    (OpenAIService)             *)
(*   backend/app/utils/nlp_processor.py        (NLPProcessor)              *)
(*   backend/app/models/email_models.py        (response validation)       *)
(*                                                                         *)
(* Texts are sequences of words.  Python's `kw in text` is a substring     *)
(* test; the table Contains lists, for every word of the vocabulary, the   *)
(* entries of the source's keyword lists that occur inside that word.  No  *)
(* two words of the vocabulary form a multi-word keyword, so the test is   *)
(* decided word by word.  Floats are exact rationals [n, d].               *)
(***************************************************************************)
EXTENDS Integers, Sequences, FiniteSets, TLC

(***************************************************************************)
(* Rational arithmetic (the code's float arithmetic, without rounding).    *)
(***************************************************************************)
RECURSIVE Gcd(_, _)
Gcd(a, b) == IF b = 0 THEN a ELSE Gcd(b, a % b)

Abs(x) == IF x < 0 THEN -x ELSE x

Rat(n, d) ==
    LET g == Gcd(Abs(n), d)
    IN  IF n = 0 THEN [n |-> 0, d |-> 1] ELSE [n |-> n \div g, d |-> d \div g]

Milli(k) == Rat(k, 1000)

RatLe(a, b) == a.n * b.d <= b.n * a.d

RatLt(a, b) == a.n * b.d < b.n * a.d

RatMin(a, b) == IF RatLe(a, b) THEN a ELSE b

RatAdd(a, b) == Rat(a.n * b.d + b.n * a.d, a.d * b.d)

RatMulInt(a, k) == Rat(a.n * k, a.d)

RatDivInt(a, k) == Rat(a.n, a.d * k)

RatMul(a, b) == Rat(a.n * b.n, a.d * b.d)

(***************************************************************************)
(* Vocabulary.  "lorem20" stands for a run of 20 neutral words and         *)
(* "lorem80" for a run of 80 neutral words (more than 500 characters);     *)
(* "##########" is a run of special characters.                            *)
(***************************************************************************)
Vocabulary ==
    {"obrigado", "Obrigado", "problema", "estoque", "weather", "sistema", "parou",
     "urgente", "pressa", "feliz", "festa", "natal", "##########", "lorem20",
     "lorem80"}

\* str.lower() on the words of the vocabulary
Lower(w) == IF w = "Obrigado" THEN "obrigado" ELSE w

\* len(word)
CharLen(w) ==
    CASE w \in {"obrigado", "Obrigado", "problema"} -> 8
      [] w \in {"sistema", "urgente", "estoque", "weather"} -> 7
      [] w \in {"parou", "feliz", "festa", "natal"} -> 5
      [] w = "pressa" -> 6
      [] w = "##########" -> 10
      [] w = "lorem20" -> 139
      [] w = "lorem80" -> 559
      [] OTHER -> 0

\* number of alphabetic tokens longer than one character the word stands for
WordCount(w) ==
    CASE w = "lorem20" -> 20
      [] w = "lorem80" -> 80
      [] w \in {"##########", "<cut>"} -> 0
      [] OTHER -> 1

\* the keyword-list entries (of any list of the source) that are substrings
\* of the word
Contains(w) ==
    CASE w = "obrigado" -> {"obrigado"}
      [] w = "problema" -> {"problema", "problem"}
      [] w = "estoque" -> {"que"}
      [] w = "weather" -> {"the"}
      [] w = "urgente" -> {"urgente", "urgent"}
      [] w = "pressa" -> {"pressa"}
      [] w = "feliz" -> {"feliz"}
      [] w = "festa" -> {"festa"}
      [] w = "natal" -> {"natal"}
      [] OTHER -> {}

\* Python: kw in text
KwIn(kw, text) == \E i \in DOMAIN text : kw \in Contains(text[i])

\* Python: sum(1 for kw in lexicon if kw in text)
CountIn(lexicon, text) == Cardinality({kw \in lexicon : KwIn(kw, text)})

(***************************************************************************)
(* NLPProcessor                                                            *)
(***************************************************************************)
\* custom_stops of _get_portuguese_stopwords
PortugueseCustomStops ==
    {"att", "atenciosamente", "cordialmente", "abracos", "abraço",
     "cumprimentos", "saudacoes", "obrigado", "obrigada", "agradeco",
     "prezado", "prezada", "caro", "cara", "senhor", "senhora",
     "sr", "sra", "email", "e-mail", "assunto", "ref", "fwd",
     "re", "encaminho", "segue", "anexo", "anexos"}

\* custom_stops of _get_english_stopwords
EnglishCustomStops ==
    {"regards", "sincerely", "best", "thanks", "thank", "dear",
     "hello", "hi", "email", "subject", "fwd", "forward", "re",
     "attachment", "attached", "please", "kind"}

\* stopwords.words(...) of the NLTK corpus, restricted to the vocabulary: no
\* word of the vocabulary is a stopword of the corpus, so the set is the same
\* whether the corpus is installed or not (the except branch)
NltkStopwords == {}

portuguese_stopwords == NltkStopwords \cup PortugueseCustomStops

english_stopwords == NltkStopwords \cup EnglishCustomStops

\* words made only of characters outside [\w\s.!?,;:-]
SpecialOnly == {"##########"}

LowerText(text) == [i \in DOMAIN text |-> Lower(text[i])]

clean_text(text) ==
    IF text = <<>> THEN <<>>
    ELSE LET keep(w) == w \notin SpecialOnly
         IN  SelectSeq(LowerText(text), keep)

tokenize_text(text) ==
    LET word(w) == WordCount(w) > 0
    IN  SelectSeq(text, word)

RECURSIVE SumWords(_)
SumWords(text) ==
    IF text = <<>> THEN 0 ELSE WordCount(Head(text)) + SumWords(Tail(text))

portuguese_indicators ==
    {"que", "para", "com", "uma", "por", "são", "não", "mais", "como", "seu"}

english_indicators ==
    {"the", "and", "for", "are", "with", "not", "you", "this", "have", "from"}

detect_language(text) ==
    LET text_lower == LowerText(text)
        portuguese_score == CountIn(portuguese_indicators, text_lower)
        english_score == CountIn(english_indicators, text_lower)
    IN  IF portuguese_score > english_score THEN "portuguese"
        ELSE IF english_score > portuguese_score THEN "english"
        ELSE "unknown"

remove_stopwords(tokens, language) ==
    LET stopwords_set == IF language = "portuguese"
                         THEN portuguese_stopwords
                         ELSE english_stopwords
        keep(w) == Lower(w) \notin stopwords_set
    IN  SelectSeq(tokens, keep)

\* remove_stopwords=True, apply_stemming=False, as classify_email calls it
preprocess_for_classification(text) ==
    IF text = <<>> THEN <<>>
    ELSE LET cleaned_text == clean_text(text)
             tokens == tokenize_text(cleaned_text)
             language == detect_language(cleaned_text)
         IN  remove_stopwords(tokens, language)

urgency_words ==
    {"urgente", "pressa", "rápido", "imediato", "asap", "emergency", "urgent"}

question_indicators ==
    {"?", "como", "quando", "onde", "por que", "what", "how", "when", "where", "why"}

greeting_words == {"oi", "olá", "bom dia", "boa tarde", "hello", "hi", "dear"}

closing_words == {"obrigado", "abraço", "att", "regards", "sincerely", "best"}

extract_key_features(text) ==
    [word_count     |-> SumWords(tokenize_text(text)),
     urgency_score  |-> CountIn(urgency_words, LowerText(text)),
     question_score |-> CountIn(question_indicators, LowerText(text)),
     greeting_score |-> CountIn(greeting_words, LowerText(text)),
     closing_score  |-> CountIn(closing_words, LowerText(text)),
     language       |-> detect_language(text)]

(***************************************************************************)
(* EmailClassifier: lexicons and the rule-based scorer                     *)
(***************************************************************************)
PRODUCTIVE == "produtivo"

UNPRODUCTIVE == "improdutivo"

\* self.productive_keywords, a dict keyed by language
productive_keywords ==
    [portuguese |->
        {"problema", "erro", "ajuda", "suporte", "dúvida", "questão",
         "solicitação", "pedido", "requisição", "atualização", "status",
         "informação", "documento", "arquivo", "prazo", "urgente",
         "reunião", "meeting", "projeto", "tarefa", "deadline",
         "aprovação", "autorização", "confirmação", "verificação",
         "relatório", "dados", "análise", "proposta", "orçamento"},
     english |->
        {"problem", "issue", "error", "help", "support", "question",
         "request", "update", "status", "information", "document",
         "file", "deadline", "urgent", "meeting", "project", "task",
         "approval", "authorization", "confirmation", "verification",
         "report", "data", "analysis", "proposal", "quote", "budget"}]

\* self.unproductive_keywords, a dict keyed by language
unproductive_keywords ==
    [portuguese |->
        {"parabéns", "felicitações", "aniversário", "natal", "ano novo",
         "obrigado", "agradeço", "agradecimento", "bom dia", "boa tarde",
         "boa noite", "feliz", "sucesso", "tudo bem", "cumprimento",
         "saudação", "abraço", "beijo", "férias", "feriado"},
     english |->
        {"congratulations", "happy", "birthday", "christmas", "new year",
         "thanks", "thank you", "good morning", "good afternoon",
         "good evening", "best wishes", "success", "vacation", "holiday",
         "greeting", "celebration", "party"}]

\* dict.get(key, default)
Get(dict, key, default) == IF key \in DOMAIN dict THEN dict[key] ELSE default

\* the two scores of _classify_with_rules, before the decision
RuleScores(text, features) ==
    LET text_lower == LowerText(text)
        language == Get(features, "language", "portuguese")
        kwP == CountIn(Get(productive_keywords, language, {}), text_lower)
        kwU == CountIn(Get(unproductive_keywords, language, {}), text_lower)
    IN  [productive_score |->
            2 * kwP
            + (IF Get(features, "question_score", 0) > 0 THEN 2 ELSE 0)
            + (IF Get(features, "urgency_score", 0) > 0 THEN 3 ELSE 0),
         unproductive_score |->
            3 * kwU
            + (IF Get(features, "greeting_score", 0) > 2 THEN 1 ELSE 0)
            + (IF Get(features, "word_count", 0) < 20 THEN 1 ELSE 0)]

Max(a, b) == IF a > b THEN a ELSE b

\* the decision without the branch for a total of 0
RuleDecisionNoDefault(productive_score, unproductive_score) ==
    IF productive_score > unproductive_score
    THEN [category |-> PRODUCTIVE, confidence |-> Milli(650)]
    ELSE IF unproductive_score > productive_score
    THEN [category |-> UNPRODUCTIVE, confidence |-> Milli(650)]
    ELSE [category |-> PRODUCTIVE, confidence |-> Milli(520)]

\* the decision in which a tie goes to the unproductive branch
RuleDecisionNoTie(productive_score, unproductive_score) ==
    IF productive_score + unproductive_score = 0
    THEN [category |-> PRODUCTIVE, confidence |-> Milli(550)]
    ELSE IF productive_score > unproductive_score
    THEN [category |-> PRODUCTIVE, confidence |-> Milli(650)]
    ELSE [category |-> UNPRODUCTIVE, confidence |-> Milli(650)]

\* the decision that adds the bonus to every confidence
RuleDecisionAlwaysBonus(productive_score, unproductive_score) ==
    LET total_score == productive_score + unproductive_score
        score_difference == Abs(productive_score - unproductive_score)
        bonus ==
            RatMin(Milli(980),
                   RatAdd(RatMin(Milli(950),
                                 RatAdd(Milli(650),
                                        RatMul(Rat(score_difference, Max(total_score, 1)),
                                               Milli(250)))),
                          Milli(100)))
    IN  IF total_score = 0
        THEN [category |-> PRODUCTIVE, confidence |-> Milli(550)]
        ELSE IF productive_score > unproductive_score
        THEN [category |-> PRODUCTIVE, confidence |-> bonus]
        ELSE IF unproductive_score > productive_score
        THEN [category |-> UNPRODUCTIVE, confidence |-> bonus]
        ELSE [category |-> PRODUCTIVE, confidence |-> Milli(520)]

\* the decision of _classify_with_rules on the two scores
RuleDecision(productive_score, unproductive_score) ==
    LET total_score == productive_score + unproductive_score
        score_difference == Abs(productive_score - unproductive_score)
        base_confidence == Milli(650)
        confidence ==
            RatMin(Milli(950),
                   RatAdd(base_confidence,
                          RatMul(Rat(score_difference, Max(total_score, 1)),
                                 Milli(250))))
        bonus == RatMin(Milli(980), RatAdd(confidence, Milli(100)))
    IN  IF total_score = 0
        THEN [category |-> PRODUCTIVE, confidence |-> Milli(550)]
        ELSE IF productive_score > unproductive_score
        THEN [category |-> PRODUCTIVE,
              confidence |-> IF productive_score >= 6 THEN bonus ELSE confidence]
        ELSE IF unproductive_score > productive_score
        THEN [category |-> UNPRODUCTIVE,
              confidence |-> IF unproductive_score >= 9 THEN bonus ELSE confidence]
        ELSE [category |-> PRODUCTIVE, confidence |-> Milli(520)]

classify_with_rules(text, features) ==
    LET s == RuleScores(text, features)
    IN  RuleDecision(s.productive_score, s.unproductive_score)

(***************************************************************************)
(* EmailClassifier: the local sentiment-model classifier                   *)
(***************************************************************************)
\* text[:500] cuts after this many characters
AiTextLimit == 500

\* len(text) of the words joined by single spaces
RECURSIVE JoinedLen(_)
JoinedLen(text) ==
    IF text = <<>> THEN 0
    ELSE CharLen(Head(text)) + (IF Len(text) > 1 THEN 1 + JoinedLen(Tail(text)) ELSE 0)

\* text[:limit]: the words lying wholly inside the first limit characters; a
\* word the cut falls into is left as "<cut>", a prefix that matches no keyword
RECURSIVE Truncate(_, _)
Truncate(text, limit) ==
    IF text = <<>> \/ limit <= 0 THEN <<>>
    ELSE IF CharLen(Head(text)) <= limit
         THEN <<Head(text)>> \o Truncate(Tail(text), limit - CharLen(Head(text)) - 1)
         ELSE <<"<cut>">>

ai_unproductive_keywords ==
    {"parabéns", "felicitações", "aniversário", "natal", "obrigado", "agradeço",
     "bom dia", "boa tarde", "boa noite", "feliz", "abraço", "beijo", "tudo bem",
     "oi pessoal", "olá", "como vai", "como está", "cumprimentos", "saudações",
     "fim de semana", "feriado", "férias", "festa", "celebração", "comemoração"}

ai_productive_keywords ==
    {"problema", "erro", "ajuda", "urgente", "prazo", "relatório", "dados", "projeto",
     "reunião", "reuniao", "meeting", "solicitação", "pedido", "informação",
     "documento", "arquivo", "cancelada", "cancelado", "adiada", "adiado",
     "remarcada", "remarcado"}

\* what self.sentiment_classifier(text) can do: raise, return an empty or
\* malformed reply, or return scores whose best entry is (label, score)
SentimentScores == {Milli(400), Milli(1000)}

SentimentLabels == {"positive", "negative", "neutral"}

SentimentOutputs ==
    {[kind |-> "raise"], [kind |-> "invalid"]}
    \cup [kind : {"scores"}, label : SentimentLabels, score : SentimentScores]

classify_with_ai(text0, out) ==
    LET text == IF JoinedLen(text0) > AiTextLimit THEN Truncate(text0, AiTextLimit) ELSE text0
        text_lower == LowerText(text)
        unproductive_count == CountIn(ai_unproductive_keywords, text_lower)
        productive_count == CountIn(ai_productive_keywords, text_lower)
    IN  IF out.kind # "scores"
        THEN [category |-> PRODUCTIVE, confidence |-> Milli(500)]
        ELSE IF unproductive_count > 0
        THEN [category |-> UNPRODUCTIVE,
              confidence |-> RatMin(Milli(900), RatAdd(out.score, Milli(150)))]
        ELSE IF productive_count > 0
        THEN [category |-> PRODUCTIVE,
              confidence |-> RatMin(Milli(900), RatAdd(out.score, Milli(100)))]
        ELSE IF out.label \in {"positive", "pos"}
        THEN [category |-> UNPRODUCTIVE, confidence |-> RatMin(Milli(750), out.score)]
        ELSE IF out.label \in {"negative", "neg"}
        THEN [category |-> PRODUCTIVE, confidence |-> RatMin(Milli(800), out.score)]
        ELSE [category |-> PRODUCTIVE, confidence |-> RatMin(Milli(550), out.score)]

(***************************************************************************)
(* Response templates (config.py) and _generate_response                   *)
(***************************************************************************)
\* settings.PRODUCTIVE_RESPONSES, in order: "... em breve.", "... hoje
\* ainda.", "... em até 24 horas.", "... ainda hoje.", "... o progresso."
PRODUCTIVE_RESPONSES == {"P1", "P2", "P3", "P4", "P5"}

\* settings.UNPRODUCTIVE_RESPONSES
UNPRODUCTIVE_RESPONSES == {"U1", "U2", "U3", "U4", "U5"}

\* 'breve' in r or 'hoje' in r or 'rápid' in r
IsUrgentTemplate(r) == r \in {"P1", "P2", "P4"}

\* a choice that never looks at the urgency of the email
choose_from_category_pool(category, features) ==
    IF category = PRODUCTIVE THEN PRODUCTIVE_RESPONSES ELSE UNPRODUCTIVE_RESPONSES

\* _generate_response: the value is the set of templates random.choice draws
\* from; a suggested response is held as the set of texts it can be
generate_response(category, features) ==
    LET responses == IF category = PRODUCTIVE
                     THEN PRODUCTIVE_RESPONSES ELSE UNPRODUCTIVE_RESPONSES
        urgent_responses == {r \in responses : IsUrgentTemplate(r)}
    IN  IF Get(features, "urgency_score", 0) > 0 /\ category = PRODUCTIVE
           /\ urgent_responses # {}
        THEN urgent_responses
        ELSE responses

(***************************************************************************)
(* Metrics (EmailProcessingMetrics, _update_metrics)                       *)
(***************************************************************************)
Zero == Rat(0, 1)

One == Rat(1, 1)

\* EmailProcessingMetrics(): the field defaults
EmailProcessingMetrics ==
    [total_processed |-> 0, productive_count |-> 0, unproductive_count |-> 0,
     average_processing_time |-> Zero, average_confidence |-> Zero,
     last_updated |-> FALSE]

update_metrics(m, category, processing_time, confidence) ==
    LET total == m.total_processed + 1
    IN  [total_processed |-> total,
         productive_count |->
            IF category = PRODUCTIVE THEN m.productive_count + 1 ELSE m.productive_count,
         unproductive_count |->
            IF category = PRODUCTIVE THEN m.unproductive_count ELSE m.unproductive_count + 1,
         average_confidence |->
            RatDivInt(RatAdd(RatMulInt(m.average_confidence, total - 1), confidence), total),
         average_processing_time |->
            RatDivInt(RatAdd(RatMulInt(m.average_processing_time, total - 1),
                             processing_time), total),
         last_updated |-> TRUE]

(***************************************************************************)
(* EmailClassificationResponse: the constructor validates the fields       *)
(***************************************************************************)
\* a constructor that accepts every confidence
AnyConfidence(confidence) == TRUE

\* confidence: float = Field(..., ge=0.0, le=1.0)
ConfidenceFieldOk(confidence) == RatLe(Zero, confidence) /\ RatLe(confidence, One)

EmailClassificationResponse(category, confidence, suggested, ptime, model_used) ==
    [category |-> category, confidence |-> confidence,
     suggested_response |-> suggested,
     processing_time |-> ptime, model_used |-> model_used]

\* the result classify_multiple_emails substitutes for a failed request
SentinelResponse ==
    EmailClassificationResponse(PRODUCTIVE, Zero, {"apology"}, Zero, "error_fallback")

(***************************************************************************)
(* The remote classifier's replies (OpenAIService.classify_email)          *)
(***************************************************************************)
\* None after a transport or JSON error, else the parsed JSON object
None == [none |-> TRUE]

NotANumber == [text |-> "alta"]

RemoteReplies ==
    {None,
     [categoria |-> "Produtivo", confianca |-> Milli(900)],
     [categoria |-> "improdutivo"],
     [categoria |-> "spam", confianca |-> One],
     [confianca |-> Zero],
     [categoria |-> "produtivo", confianca |-> Milli(1500)],
     [categoria |-> "improdutivo", confianca |-> Milli(-200)],
     [categoria |-> "produtivo", confianca |-> NotANumber]}

\* str.lower() on the category names
LowerCat(c) == IF c = "Produtivo" THEN "produtivo" ELSE c

\* float(x): raises on text that is not a number
FloatRaises(x) == "n" \notin DOMAIN x

\* category and confidence as lines 288-289 derive them from a reply
RemoteCategory(reply) ==
    IF LowerCat(Get(reply, "categoria", "")) = "produtivo"
    THEN PRODUCTIVE ELSE UNPRODUCTIVE

RemoteConfidence(reply) == Get(reply, "confianca", Milli(800))

\* what generate_response returns: the generated text, or None
GeneratedTexts == {"generated", "none"}

(***************************************************************************)
(* Bounds and inputs of the model                                          *)
(***************************************************************************)
\* task slots: calls of classify_email in flight or held by a batch
MaxTasks == 2

\* calls of classify_email started in one run
MaxCalls == 2

\* requests in one batch
MaxBatch == 2

\* calls of classify_multiple_emails that run at the same time, among the
\* single calls and the resets
MaxBatches == 1

\* calls of classify_multiple_emails that run at the same time when only
\* batch calls are made
MaxGateBatches == 2

\* the largest settings.MAX_CONCURRENT_REQUESTS a run is configured with
MaxConcurrent == 2

\* calls of reset_metrics made in a row
MaxResets == 2

Slots == 1..MaxTasks

Batches == 1..MaxGateBatches

TextThanksPt == <<"Obrigado", "estoque", "sistema">>

TextParty == <<"estoque", "festa">>

TextProblem == <<"estoque", "problema", "urgente">>

TextSpecial == <<"##########">>

TextNeutralLong == <<"lorem20">>

TextNeutralShort == <<"sistema", "parou">>

TextLateKeyword == <<"lorem80", "feliz">>

TextCheers == <<"Obrigado", "feliz", "natal">>

\* the contents of the requests sent to the engine
Contents == {TextParty, TextProblem, TextSpecial}

\* EmailClassificationRequest: content and the two metadata keys the engine
\* reads (metadata absent or empty reads as both FALSE)
Requests == [content : Contents, use_openai : BOOLEAN, preferred_local : BOOLEAN]

\* the requests sent in batches: one that classifies and one whose content is
\* empty after cleaning, each with and without the remote classifier asked for
BatchRequests ==
    [content : {TextProblem, TextSpecial}, use_openai : BOOLEAN, preferred_local : {FALSE}]

\* time.time() - start_time, in seconds
ProcTimes == {Milli(20)}

(***************************************************************************)
(* State                                                                   *)
(***************************************************************************)
VARIABLES
    phase,              \* "startup" until initialize_model has run, then "serving"
    openai_available,   \* openai_service.is_available()
    max_concurrent,     \* settings.MAX_CONCURRENT_REQUESTS (default 10)
    is_model_loaded,    \* self.is_model_loaded (and self.sentiment_classifier set)
    metrics,            \* self.metrics
    tasks,              \* the calls of classify_email in flight or in a batch
    last,               \* the latest finished call made on its own
    batches,            \* the calls of classify_multiple_emails
    calls_started,      \* history: calls of classify_email started so far
    ok_calls,           \* history: calls that returned a result since the last reset
    rule_text,          \* SpecRules: text given to _classify_with_rules
    rule_features,      \* SpecRules: feature bundle given to it
    rule_result,        \* SpecRules: what it returned
    ai_text,            \* SpecLocalModel: content of a request on the local-model path
    ai_out,             \* SpecLocalModel: what the sentiment model does on it
    ai_result,          \* SpecLocalModel: what _classify_with_ai returned
    reset_run,          \* SpecMetrics: the calls of reset_metrics just made in a row
    snapshot,           \* SpecMetrics: the object a caller got from get_metrics
    http_content,       \* SpecRequest: content of a request body sent to POST /classify
    http_outcome        \* SpecRequest: what became of the request

engineVars ==
    <<phase, openai_available, max_concurrent, is_model_loaded,
      metrics, tasks, last, batches, calls_started, ok_calls>>

ruleVars == <<rule_text, rule_features, rule_result>>

aiVars == <<ai_text, ai_out, ai_result>>

requestVars == <<http_content, http_outcome>>

metricsVars == <<reset_run, snapshot>>

pureVars == <<ruleVars, aiVars, metricsVars, requestVars>>

vars == <<engineVars, pureVars>>

NoReq == [content |-> <<>>, use_openai |-> FALSE, preferred_local |-> FALSE]

NoResp == [none |-> TRUE]

\* a slot with no call in it
FreeTask ==
    [pc |-> "free", req |-> NoReq, batch |-> 0, idx |-> 0,
     category |-> PRODUCTIVE, confidence |-> Milli(600),
     classification_method |-> "rule-based",
     outcome |-> "none", resp |-> NoResp,
     \* history of the call
     remote_called |-> FALSE, reply |-> None, ai_called |-> FALSE,
     ai_failed |-> FALSE, rules_called |-> FALSE, updates |-> 0,
     m0 |-> EmailProcessingMetrics, m1 |-> EmailProcessingMetrics, alone |-> TRUE]

\* a call that has just entered classify_email (lines 266-282)
NewTask(req, b, i, m) ==
    [FreeTask EXCEPT !.pc = "running", !.req = req, !.batch = b, !.idx = i, !.m0 = m]

IdleBatch ==
    [state |-> "idle", requests |-> <<>>, slots |-> <<>>, sem |-> 0,
     responses |-> <<>>,
     \* history of the batch: the order in which its tasks finished, and the
     \* finished call of each request
     order |-> <<>>, results |-> <<>>]

(***************************************************************************)
(* classify_email, cut at its suspension points: the await of the remote   *)
(* classification (line 286) and the await of the remote response          *)
(* generation (line 293).  Everything between two suspension points runs   *)
(* without interruption on the event loop.                                 *)
(***************************************************************************)
\* a selection that does not look at preferred_model
RemoteSelectedIgnoringLocal(req) ==
    openai_available /\ req.use_openai

\* line 284: the remote classifier is tried
RemoteSelected(req) ==
    openai_available /\ req.use_openai /\ ~req.preferred_local

\* a call that never gives up on an unavailable remote classifier
NeverGivesUp(req) == FALSE

\* line 313: remote classification was requested but is not available
RemoteRequestedButUnavailable(req) ==
    req.use_openai /\ ~openai_available

\* lines 358-361: the call ends by raising
Raised(t, m) ==
    [t EXCEPT !.pc = "done", !.outcome = "error", !.m1 = m]

\* lines 301-308 and 345-356: the call ends by returning response
Returned(t, m, response) ==
    [t EXCEPT !.pc = "done", !.outcome = "ok", !.resp = response, !.m1 = m]

\* a finish that writes the metrics back from what the call read when it
\* entered classify_email
LocalFinishStale(t, m, r, pool, ptime) ==
    LET m2 == update_metrics(t.m0, r.category, ptime, r.confidence)
        t2 == [t EXCEPT !.category = r.category, !.confidence = r.confidence,
                        !.updates = @ + 1]
    IN  [task |-> IF ConfidenceFieldOk(r.confidence)
                  THEN Returned(t2, m2,
                           EmailClassificationResponse(r.category, r.confidence,
                               pool, ptime, t.classification_method))
                  ELSE Raised(t2, m2),
         metrics |-> m2]

\* lines 336-356 with classification r, random.choice drawing from pool and
\* processing time ptime: update the metrics, then build the reply (whose
\* validation can raise)
LocalFinish(t, m, r, pool, ptime) ==
    LET m2 == update_metrics(m, r.category, ptime, r.confidence)
        t2 == [t EXCEPT !.category = r.category, !.confidence = r.confidence,
                        !.updates = @ + 1]
    IN  [task |-> IF ConfidenceFieldOk(r.confidence)
                  THEN Returned(t2, m2,
                           EmailClassificationResponse(r.category, r.confidence,
                               pool, ptime, t.classification_method))
                  ELSE Raised(t2, m2),
         metrics |-> m2]

\* lines 312-361: the local path, entered when the remote classifier was not
\* selected or its attempt did not return a result.  The set holds one
\* outcome for everything the sentiment model can do (if it is called) and
\* every processing time measured.
LocalPath(t, m) ==
    LET cleaned_text == clean_text(t.req.content)
        features == extract_key_features(cleaned_text)
        preprocessed_text == preprocess_for_classification(cleaned_text)
    IN  IF RemoteRequestedButUnavailable(t.req) THEN {[task |-> Raised(t, m), metrics |-> m]}
        ELSE IF cleaned_text = <<>> THEN {[task |-> Raised(t, m), metrics |-> m]}
        ELSE IF is_model_loaded
        THEN {LET r == classify_with_ai(preprocessed_text, out)
              IN  LocalFinish([t EXCEPT !.ai_called = TRUE,
                                        !.ai_failed = out.kind # "scores"], m, r,
                              generate_response(r.category, features), ptime)
                : out \in SentimentOutputs, ptime \in ProcTimes}
        ELSE {LET r == classify_with_rules(cleaned_text, features)
              IN  LocalFinish([t EXCEPT !.rules_called = TRUE], m, r,
                              generate_response(r.category, features), ptime)
                : ptime \in ProcTimes}

\* lines 266-286: entry of classify_email up to the first suspension point
Enter(t, m) ==
    IF RemoteSelected(t.req)
    THEN {[task |-> [t EXCEPT !.pc = "await_classify", !.remote_called = TRUE],
           metrics |-> m]}
    ELSE LocalPath(t, m)

\* lines 286-293: the remote classification has returned reply
AfterClassify(t, m, reply) ==
    IF reply = None THEN LocalPath([t EXCEPT !.reply = reply], m)
    ELSE IF FloatRaises(RemoteConfidence(reply))
    THEN LocalPath([t EXCEPT !.reply = reply], m)
    ELSE {[task |-> [t EXCEPT !.pc = "await_generate", !.reply = reply,
                              !.category = RemoteCategory(reply),
                              !.confidence = RemoteConfidence(reply),
                              !.classification_method = "openai"],
           metrics |-> m]}

\* lines 293-310: the remote response generation has returned text and
\* line 298 has measured the processing time ptime
AfterGenerate(t, m, text, ptime) ==
    LET suggested_response == IF text = "none" THEN {""} ELSE {text}
        m2 == update_metrics(m, t.category, ptime, t.confidence)
        t2 == [t EXCEPT !.updates = @ + 1]
    IN  IF ConfidenceFieldOk(t.confidence)
        THEN {[task |-> Returned(t2, m2,
                            EmailClassificationResponse(t.category, t.confidence,
                                suggested_response, ptime, t.classification_method)),
               metrics |-> m2]}
        ELSE LocalPath(t2, m2)

(***************************************************************************)
(* Actions                                                                 *)
(***************************************************************************)
InFlight == {"await_classify", "await_generate"}

\* count calls of reset_metrics were made in a row just now, the first of
\* them on the metrics from; count is 0 once anything else is done
NoRun == [count |-> 0, from |-> EmailProcessingMetrics]

\* history: the calls in flight other than s have seen another call act
Others(s) ==
    [x \in Slots |->
        IF x # s /\ tasks[x].pc \in InFlight
        THEN [tasks[x] EXCEPT !.alone = FALSE] ELSE tasks[x]]

\* a semaphore whose slot is not given back
SemNotReleased(b, taken, finished) ==
    batches[b].sem - taken

\* async with semaphore (line 378): the slot taken on entry is given back
\* when classify_email returns or raises
SemAfter(b, taken, finished) ==
    batches[b].sem - taken + (IF finished THEN 1 ELSE 0)

\* history: the responses of a batch call are held in the state its return
\* leads to; the caller has taken them when the engine acts again
Consumed(bs) ==
    [b \in Batches |-> IF bs[b].state = "returned" THEN IdleBatch ELSE bs[b]]

\* the effect of one uninterrupted stretch r of the call in slot s; taken is
\* 1 when the stretch began by acquiring the semaphore of the call's batch.
\* A finished call of its own hands its outcome to the caller: last is the
\* call that returned or raised in the step just taken.  A finished task of
\* a batch keeps its outcome until gather returns.
Commit(s, r, taken) ==
    LET t == r.task
        finished == t.pc = "done"
        b == t.batch
    IN  /\ tasks' = [Others(s) EXCEPT ![s] = IF finished /\ b = 0 THEN FreeTask ELSE t]
        /\ last' = IF finished /\ b = 0 THEN t ELSE FreeTask
        /\ metrics' = r.metrics
        /\ ok_calls' = IF finished /\ t.outcome = "ok" THEN ok_calls + 1 ELSE ok_calls
        /\ batches' =
              IF b = 0 THEN Consumed(batches)
              ELSE [Consumed(batches) EXCEPT
                      ![b].sem = SemAfter(b, taken, finished),
                      ![b].order = IF finished THEN Append(@, t.idx) ELSE @]

\* lifespan (main.py): initialize_model runs once before requests are served
InitializeModel(loaded) ==
    /\ phase = "startup"
    /\ phase' = "serving"
    /\ is_model_loaded' = loaded
    /\ UNCHANGED <<openai_available, max_concurrent, metrics, tasks,
                   last, batches, calls_started, ok_calls, pureVars>>

\* a caller invokes classify_email(req) on its own (POST /classify)
ClassifyEmail(s, req) ==
    /\ phase = "serving"
    /\ tasks[s].pc = "free"
    /\ \A x \in Slots : x < s => tasks[x].pc # "free"
    /\ calls_started < MaxCalls
    /\ calls_started' = calls_started + 1
    /\ \E r \in Enter(NewTask(req, 0, 0, metrics), metrics) : Commit(s, r, 0)
    /\ UNCHANGED <<phase, openai_available, max_concurrent,
                   is_model_loaded, pureVars>>

\* the remote classification of the call in slot s returns reply
RemoteClassifyReturns(s, reply) ==
    /\ tasks[s].pc = "await_classify"
    /\ \E r \in AfterClassify(tasks[s], metrics, reply) : Commit(s, r, 0)
    /\ UNCHANGED <<phase, openai_available, max_concurrent,
                   is_model_loaded, calls_started, pureVars>>

\* the remote response generation of the call in slot s returns text
RemoteGenerateReturns(s, text) ==
    /\ tasks[s].pc = "await_generate"
    /\ \E ptime \in ProcTimes :
          \E r \in AfterGenerate(tasks[s], metrics, text, ptime) : Commit(s, r, 0)
    /\ UNCHANGED <<phase, openai_available, max_concurrent,
                   is_model_loaded, calls_started, pureVars>>

\* the free slots, lowest first
RECURSIVE FreeSlotsFrom(_)
FreeSlotsFrom(x) ==
    IF x > MaxTasks THEN <<>>
    ELSE (IF tasks[x].pc = "free" THEN <<x>> ELSE <<>>) \o FreeSlotsFrom(x + 1)

\* lines 373-382: classify_multiple_emails(requests) creates its semaphore
\* and one task per request; gather schedules them in order
ClassifyMultipleEmails(b, requests) ==
    LET n == Len(requests)
        free == FreeSlotsFrom(1)
        slots == SubSeq(free, 1, n)
    IN  /\ phase = "serving"
        /\ batches[b].state # "running"
        /\ \A c \in Batches : c < b => batches[c].state = "running"
        /\ Len(free) >= n
        /\ calls_started + n <= MaxCalls
        /\ calls_started' = calls_started + n
        /\ batches' = [Consumed(batches) EXCEPT ![b] =
                          [IdleBatch EXCEPT !.state = "running", !.requests = requests,
                                            !.slots = slots, !.sem = max_concurrent]]
        /\ last' = FreeTask
        /\ tasks' = [x \in Slots |->
                        IF \E i \in 1..n : slots[i] = x
                        THEN LET i == CHOOSE j \in 1..n : slots[j] = x
                             IN  [FreeTask EXCEPT !.pc = "queued", !.req = requests[i],
                                                  !.batch = b, !.idx = i]
                        ELSE tasks[x]]
        /\ UNCHANGED <<phase, openai_available, max_concurrent,
                       is_model_loaded, metrics, ok_calls, pureVars>>

\* a semaphore that never makes a task wait
AlwaysFree(b) == TRUE

\* async with semaphore (line 378): the semaphore of the batch can be
\* acquired without waiting
SemaphoreFree(b) == batches[b].sem > 0

\* classify_with_semaphore (lines 377-379): the next waiting task of a batch
\* acquires the semaphore and enters classify_email
TaskStart(s) ==
    LET b == tasks[s].batch
    IN  /\ tasks[s].pc = "queued"
        /\ SemaphoreFree(b)
        /\ \A x \in Slots :
              (tasks[x].batch = b /\ tasks[x].idx < tasks[s].idx) => tasks[x].pc # "queued"
        /\ \E r \in Enter(NewTask(tasks[s].req, b, tasks[s].idx, metrics), metrics) :
              Commit(s, r, 1)
        /\ UNCHANGED <<phase, openai_available, max_concurrent,
                       is_model_loaded, calls_started, pureVars>>

\* the outcomes in the order in which the tasks finished
GatherAsCompleted(b) ==
    [i \in 1..Len(batches[b].slots) |-> tasks[batches[b].slots[batches[b].order[i]]]]

\* asyncio.gather(*tasks, return_exceptions=True): the outcome of every task,
\* in the order of the tasks
GatherResults(b) ==
    [i \in 1..Len(batches[b].slots) |-> tasks[batches[b].slots[i]]]

\* lines 384-398: one response per gathered result, the sentinel for a raise
BuildResponses(results) ==
    [i \in 1..Len(results) |->
        IF results[i].outcome = "error" THEN SentinelResponse ELSE results[i].resp]

\* metrics in which every substituted sentinel is counted as processed
CountSentinels(m, results) ==
    [m EXCEPT !.total_processed =
        @ + Cardinality({i \in DOMAIN results : results[i].outcome = "error"})]

\* lines 384-398 do not call _update_metrics: self.metrics after the loop is
\* what the calls of classify_email left
MetricsAfterResponses(m, results) == m

\* lines 382-401: all tasks are done; gather returns and the batch call
\* builds and returns its responses
BatchCollect(b) ==
    /\ batches[b].state = "running"
    /\ \A i \in 1..Len(batches[b].slots) : tasks[batches[b].slots[i]].pc = "done"
    /\ batches' = [Consumed(batches) EXCEPT
                      ![b].state = "returned",
                      ![b].responses = BuildResponses(GatherResults(b)),
                      ![b].results =
                          [i \in 1..Len(batches[b].slots) |->
                              CHOOSE t \in {tasks[x] : x \in Slots} :
                                  t.batch = b /\ t.idx = i]]
    /\ metrics' = MetricsAfterResponses(metrics, GatherResults(b))
    /\ tasks' = [x \in Slots |-> IF tasks[x].batch = b THEN FreeTask ELSE tasks[x]]
    /\ last' = FreeTask
    /\ UNCHANGED <<phase, openai_available, max_concurrent,
                   is_model_loaded, calls_started, ok_calls, pureVars>>

\* a reset that leaves last_updated as it was
ResetKeepsLastUpdated(m) ==
    [EmailProcessingMetrics EXCEPT !.last_updated = m.last_updated]

\* reset_metrics: self.metrics = EmailProcessingMetrics()
reset_metrics(m) == EmailProcessingMetrics

\* reset_metrics is called (POST /metrics/reset)
ResetMetrics ==
    /\ phase = "serving"
    /\ metrics # EmailProcessingMetrics
    /\ metrics' = reset_metrics(metrics)
    /\ ok_calls' = 0
    /\ tasks' = [x \in Slots |->
                    IF tasks[x].pc \in InFlight
                    THEN [tasks[x] EXCEPT !.alone = FALSE] ELSE tasks[x]]
    /\ last' = FreeTask
    /\ batches' = Consumed(batches)
    /\ UNCHANGED <<phase, openai_available, max_concurrent,
                   is_model_loaded, calls_started, pureVars>>

\* no classification made yet
NoResult == [none |-> TRUE]

\* the engine after construction (EmailClassifier.__init__)
EngineInit ==
    /\ phase = "startup"
    /\ is_model_loaded = FALSE
    /\ metrics = EmailProcessingMetrics
    /\ tasks = [x \in Slots |-> FreeTask]
    /\ last = FreeTask
    /\ batches = [b \in Batches |-> IdleBatch]
    /\ calls_started = 0
    /\ ok_calls = 0

RulesIdle ==
    /\ rule_text = <<>>
    /\ rule_features = <<>>
    /\ rule_result = NoResult

LocalModelIdle ==
    /\ ai_text = <<>>
    /\ ai_out = NoResult
    /\ ai_result = NoResult

\* what get_metrics returned to a caller: is_current says that the object
\* held is the one self.metrics refers to, seen is what its fields read now,
\* taken what they read when it was returned
NoSnapshot ==
    [held |-> FALSE, is_current |-> FALSE,
     taken |-> EmailProcessingMetrics, seen |-> EmailProcessingMetrics]

MetricsIdle ==
    /\ reset_run = NoRun
    /\ snapshot = NoSnapshot

NoContent == [lead |-> 0, core |-> 0, trail |-> 0]

RequestIdle ==
    /\ http_content = NoContent
    /\ http_outcome = "none"

Init ==
    /\ EngineInit
    /\ openai_available \in BOOLEAN
    /\ max_concurrent \in 1..MaxConcurrent
    /\ RulesIdle
    /\ LocalModelIdle
    /\ MetricsIdle
    /\ RequestIdle

BatchInputs == UNION {[1..n -> BatchRequests] : n \in 1..MaxBatch}

Next ==
    \/ \E loaded \in BOOLEAN : InitializeModel(loaded)
    \/ \E s \in Slots, req \in Requests : ClassifyEmail(s, req)
    \/ \E s \in Slots, reply \in RemoteReplies : RemoteClassifyReturns(s, reply)
    \/ \E s \in Slots, text \in GeneratedTexts : RemoteGenerateReturns(s, text)
    \/ \E b \in 1..MaxBatches, requests \in BatchInputs : ClassifyMultipleEmails(b, requests)
    \/ \E s \in Slots : TaskStart(s)
    \/ \E b \in Batches : BatchCollect(b)
    \/ ResetMetrics

Spec == Init /\ [][Next]_vars

(***************************************************************************)
(* Several calls of classify_multiple_emails running at the same time on   *)
(* the shared engine (the module-level email_classifier)                   *)
(***************************************************************************)
NextGate ==
    \/ \E loaded \in BOOLEAN : InitializeModel(loaded)
    \/ \E b \in Batches, requests \in BatchInputs : ClassifyMultipleEmails(b, requests)
    \/ \E s \in Slots : TaskStart(s)
    \/ \E s \in Slots, reply \in RemoteReplies : RemoteClassifyReturns(s, reply)
    \/ \E s \in Slots, text \in GeneratedTexts : RemoteGenerateReturns(s, text)
    \/ \E b \in Batches : BatchCollect(b)

SpecGate == Init /\ [][NextGate]_vars

(***************************************************************************)
(* One call of classify_multiple_emails at a time, under the scheduling of *)
(* the event loop                                                          *)
(***************************************************************************)
NextBatch ==
    \/ \E loaded \in BOOLEAN : InitializeModel(loaded)
    \/ \E b \in 1..MaxBatches, requests \in BatchInputs : ClassifyMultipleEmails(b, requests)
    \/ \E s \in Slots : TaskStart(s)
    \/ \E s \in Slots, reply \in RemoteReplies : RemoteClassifyReturns(s, reply)
    \/ \E s \in Slots, text \in GeneratedTexts : RemoteGenerateReturns(s, text)
    \/ \E b \in 1..MaxBatches : BatchCollect(b)

\* classify_with_semaphore of the task in slot s can go on: the task waits,
\* the semaphore of its batch is free and the tasks before it have entered
\* (the condition under which TaskStart(s) is enabled)
StartEnabled(s) ==
    /\ tasks[s].pc = "queued"
    /\ SemaphoreFree(tasks[s].batch)
    /\ \A x \in Slots :
          (tasks[x].batch = tasks[s].batch /\ tasks[x].idx < tasks[s].idx)
              => tasks[x].pc # "queued"

\* the scheduling of the event loop, as weak fairness of the steps that are
\* not the callers': a task that can enter classify_email does (TaskStart),
\* every await of the remote service returns, which is the proviso that each
\* classification terminates (RemoteClassifyReturns, RemoteGenerateReturns),
\* and gather returns once every task is done (BatchCollect).  Each of the
\* first three steps disables itself, so its weak fairness WF_vars(A), that
\* is []<>~ENABLED <<A>>_vars \/ []<><<A>>_vars, is []<>~ENABLED <<A>>_vars,
\* written here with the enabling condition spelled out.
Scheduling ==
    /\ \A s \in Slots : []<>(~StartEnabled(s))
    /\ \A s \in Slots : []<>(tasks[s].pc # "await_classify")
    /\ \A s \in Slots : []<>(tasks[s].pc # "await_generate")
    /\ \A b \in 1..MaxBatches : WF_vars(BatchCollect(b))

SpecBatchFair == Init /\ [][NextBatch]_vars /\ Scheduling

(***************************************************************************)
(* The rule-based scorer on its own                                        *)
(***************************************************************************)
\* the texts the scorer is given
RuleTexts ==
    {TextThanksPt, TextParty, TextProblem, TextNeutralLong, TextNeutralShort,
     TextLateKeyword, TextCheers}

\* the word counts of the feature bundles: none, one below and one at the
\* threshold of line 139, and a long text
WordCounts == {0, 19, 20, 80}

\* the feature bundles the scorer is given: the one extract_key_features
\* derives from the text, and bundles of every combination of scores
RuleFeatures ==
    [word_count : WordCounts, urgency_score : {0, 1}, question_score : {0, 1},
     greeting_score : {0, 2, 3}, closing_score : {0, 1},
     language : {"portuguese", "english", "unknown"}]

InitRules ==
    /\ EngineInit
    /\ openai_available = FALSE
    /\ max_concurrent = 1
    /\ LocalModelIdle
    /\ MetricsIdle
    /\ RequestIdle
    /\ rule_text \in RuleTexts
    /\ rule_features \in RuleFeatures \cup {extract_key_features(rule_text)}
    /\ rule_result = NoResult

\* _classify_with_rules(text, features)
ClassifyWithRules ==
    /\ rule_result = NoResult
    /\ rule_result' = classify_with_rules(rule_text, rule_features)
    /\ UNCHANGED <<engineVars, rule_text, rule_features, aiVars, metricsVars, requestVars>>

NextRules == ClassifyWithRules

SpecRules == InitRules /\ [][NextRules]_vars

(***************************************************************************)
(* The local-model path of classify_email on its own                       *)
(***************************************************************************)
TextThanks == <<"Obrigado", "sistema">>

\* the contents of the requests that take the local-model path
AiTexts ==
    {TextThanks, TextThanksPt, TextParty, TextProblem, TextNeutralLong,
     TextNeutralShort, TextLateKeyword, TextSpecial}

InitLocalModel ==
    /\ EngineInit
    /\ openai_available = FALSE
    /\ max_concurrent = 1
    /\ RulesIdle
    /\ MetricsIdle
    /\ RequestIdle
    /\ ai_text \in AiTexts
    /\ ai_out \in SentimentOutputs
    /\ ai_result = NoResult

\* lines 317-327 of classify_email with the model loaded: clean the content,
\* raise if nothing is left, preprocess and call _classify_with_ai
ClassifyWithAi ==
    /\ ai_result = NoResult
    /\ clean_text(ai_text) # <<>>
    /\ ai_result' = classify_with_ai(
                        preprocess_for_classification(clean_text(ai_text)), ai_out)
    /\ UNCHANGED <<engineVars, ruleVars, ai_text, ai_out, metricsVars, requestVars>>

NextLocalModel == ClassifyWithAi

SpecLocalModel == InitLocalModel /\ [][NextLocalModel]_vars

(***************************************************************************)
(* The metrics aggregate on its own: _update_metrics and reset_metrics     *)
(* called in any order                                                     *)
(***************************************************************************)
\* updates made since the last reset
MaxUpdates == 3

\* the confidences passed to _update_metrics: those of the local paths and
\* what the remote classifier can report
UpdateConfidences == {Zero, Milli(520), Milli(900), One, Milli(1500), Milli(-200)}

InitMetrics ==
    /\ EngineInit
    /\ openai_available = FALSE
    /\ max_concurrent = 1
    /\ RulesIdle
    /\ LocalModelIdle
    /\ MetricsIdle
    /\ RequestIdle

\* self._update_metrics(category, processing_time, confidence)
CallUpdateMetrics(category, processing_time, confidence) ==
    /\ metrics.total_processed < MaxUpdates
    /\ metrics' = update_metrics(metrics, category, processing_time, confidence)
    /\ reset_run' = NoRun
    /\ snapshot' = IF snapshot.is_current
                   THEN [snapshot EXCEPT !.seen = metrics'] ELSE snapshot
    /\ UNCHANGED <<phase, openai_available, max_concurrent, is_model_loaded, tasks,
                   last, batches, calls_started, ok_calls, ruleVars, aiVars,
                   requestVars>>

\* reset_metrics()
CallResetMetrics ==
    /\ reset_run.count < MaxResets
    /\ metrics' = reset_metrics(metrics)
    /\ reset_run' = [count |-> reset_run.count + 1,
                     from |-> IF reset_run.count = 0 THEN metrics ELSE reset_run.from]
    /\ snapshot' = [snapshot EXCEPT !.is_current = FALSE]
    /\ UNCHANGED <<phase, openai_available, max_concurrent, is_model_loaded, tasks,
                   last, batches, calls_started, ok_calls, ruleVars, aiVars,
                   requestVars>>

NextMetrics ==
    \/ \E category \in {PRODUCTIVE, UNPRODUCTIVE}, processing_time \in ProcTimes,
          confidence \in UpdateConfidences :
          CallUpdateMetrics(category, processing_time, confidence)
    \/ CallResetMetrics

SpecMetrics == InitMetrics /\ [][NextMetrics]_vars

(***************************************************************************)
(* A caller that keeps what get_metrics returned while the engine goes on  *)
(* recording classifications and being reset                               *)
(***************************************************************************)
\* get_metrics(): return self.metrics, the object itself
get_metrics(m) == [held |-> TRUE, is_current |-> TRUE, taken |-> m, seen |-> m]

\* a caller takes get_metrics() and keeps what it got
CallGetMetrics ==
    /\ ~snapshot.held
    /\ snapshot' = get_metrics(metrics)
    /\ UNCHANGED <<engineVars, ruleVars, aiVars, reset_run, requestVars>>

\* the confidences of the classifications recorded meanwhile
SnapshotConfidences == {Milli(900)}

NextSnapshot ==
    \/ CallGetMetrics
    \/ \E category \in {PRODUCTIVE, UNPRODUCTIVE}, processing_time \in ProcTimes,
          confidence \in SnapshotConfidences :
          CallUpdateMetrics(category, processing_time, confidence)
    \/ CallResetMetrics

SpecSnapshot == InitMetrics /\ [][NextSnapshot]_vars

(***************************************************************************)
(* The validation of a request body (EmailClassificationRequest) before    *)
(* POST /classify calls the engine.  A content is held as the lengths of   *)
(* its leading whitespace, of its core (which neither begins nor ends with *)
(* whitespace) and of its trailing whitespace.                             *)
(***************************************************************************)
\* content: str = Field(..., min_length=10, max_length=10000)
MinContentLength == 10

MaxContentLength == 10000

\* len(content)
ContentLen(c) == c.lead + c.core + c.trail

\* len(content.strip())
StrippedLen(c) == c.core

\* the constraints of the content field, which the request model checks on
\* the content as sent; validate_content is assigned to the class after its
\* creation (line 127) and is never run
ContentFieldOk(c) ==
    ContentLen(c) >= MinContentLength /\ ContentLen(c) <= MaxContentLength

\* the contents sent
HttpContents ==
    [lead : {0, 1, 8}, core : {0, 2, 9, 10, 9990, 10000, 10001}, trail : {0, 1, 8}]

InitRequest ==
    /\ EngineInit
    /\ openai_available = FALSE
    /\ max_concurrent = 1
    /\ RulesIdle
    /\ LocalModelIdle
    /\ MetricsIdle
    /\ http_content \in HttpContents
    /\ http_outcome = "none"

\* POST /classify: the body is parsed into an EmailClassificationRequest and
\* rejected (422) if that fails; otherwise classify_email_text hands the
\* request to the engine
PostClassify ==
    /\ http_outcome = "none"
    /\ http_outcome' = IF ContentFieldOk(http_content) THEN "engine" ELSE "rejected"
    /\ UNCHANGED <<engineVars, ruleVars, aiVars, metricsVars, http_content>>

NextRequest == PostClassify

SpecRequest == InitRequest /\ [][NextRequest]_vars

(***************************************************************************)
(* Properties                                                              *)
(***************************************************************************)
\* the calls of classify_email that have returned or raised and are still in
\* sight: the one that ended in the last step, and the ended tasks of batches
FinishedCalls ==
    {t \in {last} \cup {tasks[x] : x \in Slots} : t.pc = "done"}

\* the batch calls that returned in the last step
ReturnedBatches == {b \in Batches : batches[b].state = "returned"}

\* the results handed to a caller in the last step
ReturnedResults ==
    (IF last.pc = "done" /\ last.outcome = "ok" THEN {last.resp} ELSE {})
    \cup UNION {{batches[b].responses[i] : i \in DOMAIN batches[b].responses}
                 : b \in ReturnedBatches}

ReplyTooHigh == [categoria |-> "produtivo", confianca |-> Milli(1500)]

\* C1: every result returned to a caller, by classify_email on any path or by
\* a batch call (sentinels included), has a confidence between 0 and 1,
\* whatever the remote classifier or the local model reported
C1_ConfidenceBound ==
    \A r \in ReturnedResults :
        RatLe(Zero, r.confidence) /\ RatLe(r.confidence, One)

\* a call returned a result although the remote classifier had reported a
\* confidence above 1
C1_Witness ==
    /\ last.pc = "done"
    /\ last.outcome = "ok"
    /\ last.reply = ReplyTooHigh
    /\ RatLe(last.resp.confidence, One)

\* C2: a finished call whose request asked for the remote classifier and not
\* for the local one, with the remote classifier available and a structured
\* reply received, returned a result with model_used = openai, and neither
\* the local model nor the rule-based scorer was invoked for it
C2_RemoteShortCircuit ==
    \A t \in FinishedCalls :
        (t.req.use_openai /\ ~t.req.preferred_local /\ openai_available
            /\ t.reply # None)
        => /\ t.outcome = "ok"
           /\ t.resp.model_used = "openai"
           /\ ~t.ai_called
           /\ ~t.rules_called

\* C3: a call whose request asked for the remote classifier while it is
\* unavailable ends by raising: the remote classifier, the local model and the
\* rule-based scorer were not invoked, no result was returned and the call
\* made no update of the metrics
C3_UnavailableFails ==
    \A t \in FinishedCalls :
        (t.req.use_openai /\ ~openai_available)
        => /\ t.outcome = "error"
           /\ t.resp = NoResp
           /\ ~t.remote_called
           /\ ~t.ai_called
           /\ ~t.rules_called
           /\ t.updates = 0
           /\ (t.alone => t.m1 = t.m0)

\* a call asking for the unavailable remote classifier has failed, leaving
\* the metrics of an earlier call as they were
C3_Witness ==
    /\ ~openai_available
    /\ last.pc = "done"
    /\ last.req.use_openai
    /\ last.outcome = "error"
    /\ last.m0.total_processed = 1
    /\ metrics = last.m0

\* C4: a batch call returns one response per request; response i is the
\* result of the call made for request i, whatever the order in which the
\* calls finished, or the sentinel if that call raised
C4_BatchOrder ==
    \A b \in ReturnedBatches :
        LET B == batches[b]
        IN  /\ Len(B.responses) = Len(B.requests)
            /\ \A i \in DOMAIN B.requests :
                  LET t == B.results[i]
                  IN  /\ t.idx = i
                      /\ t.req = B.requests[i]
                      /\ B.responses[i] =
                            IF t.outcome = "error"
                            THEN [category |-> PRODUCTIVE, confidence |-> Zero,
                                  suggested_response |-> {"apology"},
                                  processing_time |-> Zero,
                                  model_used |-> "error_fallback"]
                            ELSE t.resp

\* a batch of two has returned whose second call finished first, one of the
\* two having raised and the other returned a result
C4_Witness ==
    \E b \in ReturnedBatches :
        /\ batches[b].order = <<2, 1>>
        /\ \E i, j \in {1, 2} :
              /\ batches[b].results[i].outcome = "error"
              /\ batches[b].results[j].outcome = "ok"
              /\ batches[b].responses[i].model_used = "error_fallback"
              /\ batches[b].responses[j] = batches[b].results[j].resp

\* C5: the metrics count exactly the calls that returned a result since the
\* metrics were last empty: total_processed and productive_count +
\* unproductive_count both equal that number of calls
C5_MetricsCount ==
    /\ metrics.total_processed = ok_calls
    /\ metrics.productive_count + metrics.unproductive_count = ok_calls

\* a batch call returns now: its step from running to returned
BatchReturns(b) ==
    batches[b].state = "running" /\ batches'[b].state = "returned"

\* the requests of the batch returning now whose call raised without having
\* updated the metrics
FailedUncounted(b) ==
    {i \in DOMAIN batches'[b].results :
        /\ batches'[b].results[i].outcome = "error"
        /\ batches'[b].results[i].updates = 0}

C7_FailureLeavesMetrics ==
    (last.pc = "done" /\ last.outcome = "error" /\ last.alone)
    => last.m1 = last.m0

\* the path that produced the result of a finished call
PathOf(t) ==
    IF t.ai_called THEN "ai_model"
    ELSE IF t.rules_called THEN "rule_based"
    ELSE "openai"

\* C8: model_used of every returned result names the path that produced it:
\* ai_model, rule_based or openai for a result of classify_email, and
\* error_fallback for the sentinel of a batch
C8_ModelUsedNamesPath ==
    /\ \A t \in FinishedCalls : t.outcome = "ok" => t.resp.model_used = PathOf(t)
    /\ \A b \in ReturnedBatches : \A i \in DOMAIN batches[b].responses :
          batches[b].responses[i].model_used =
              IF batches[b].results[i].outcome = "error" THEN "error_fallback"
              ELSE PathOf(batches[b].results[i])

\* the content of the request contains an unproductive override keyword
HasOverrideKeyword(text) ==
    CountIn(ai_unproductive_keywords, LowerText(text)) > 0

\* C9: on the local-model path, a request whose content contains an
\* unproductive override keyword is classified UNPRODUCTIVE whatever label
\* the sentiment model returns and wherever the keyword stands
C9_KeywordDominance ==
    (ai_result # NoResult /\ ai_out.kind = "scores" /\ HasOverrideKeyword(ai_text))
    => ai_result.category = UNPRODUCTIVE

\* the scorer finds no keyword of the lexicon it consults in the text
NoKeywordMatch(text, features) ==
    LET language == Get(features, "language", "portuguese")
    IN  /\ CountIn(Get(productive_keywords, language, {}), LowerText(text)) = 0
        /\ CountIn(Get(unproductive_keywords, language, {}), LowerText(text)) = 0

\* the four derived scores of the feature bundle are 0
NoFeatureSignal(features) ==
    /\ features.urgency_score = 0
    /\ features.question_score = 0
    /\ features.greeting_score = 0
    /\ features.closing_score = 0

\* C10, amended: with no keyword match, the four scores at 0 and
\* a word_count of at least 20, the rule-based scorer returns exactly
\* (PRODUCTIVE, 0.55)
C10_NoSignalDefault ==
    (/\ rule_result # NoResult
     /\ NoKeywordMatch(rule_text, rule_features)
     /\ NoFeatureSignal(rule_features)
     /\ rule_features.word_count >= 20)
    => rule_result = [category |-> PRODUCTIVE, confidence |-> Milli(550)]

\* the scorer has returned (PRODUCTIVE, 0.55) for a text of 80 words without
\* keyword or signal
C10_Witness ==
    /\ rule_result = [category |-> PRODUCTIVE, confidence |-> Milli(550)]
    /\ NoKeywordMatch(rule_text, rule_features)
    /\ NoFeatureSignal(rule_features)
    /\ rule_features.word_count = 80

\* C10, as stated: with no keyword match and the four scores at 0, the
\* rule-based scorer returns exactly (PRODUCTIVE, 0.55) whatever the
\* word_count
C10_NoSignalAnyLength ==
    (/\ rule_result # NoResult
     /\ NoKeywordMatch(rule_text, rule_features)
     /\ NoFeatureSignal(rule_features))
    => rule_result = [category |-> PRODUCTIVE, confidence |-> Milli(550)]

\* the scores the rule-based scorer builds, as the weights are documented:
\* 2 per productive keyword, 3 per unproductive keyword of the lexicon of the
\* language, +2 for a question, +3 for urgency, +1 for more than two
\* greetings, +1 for fewer than 20 words
DocumentedProductive(text, features) ==
    2 * CountIn(Get(productive_keywords, features.language, {}), LowerText(text))
    + (IF features.question_score > 0 THEN 2 ELSE 0)
    + (IF features.urgency_score > 0 THEN 3 ELSE 0)

DocumentedUnproductive(text, features) ==
    3 * CountIn(Get(unproductive_keywords, features.language, {}), LowerText(text))
    + (IF features.greeting_score > 2 THEN 1 ELSE 0)
    + (IF features.word_count < 20 THEN 1 ELSE 0)

\* C11: whenever the two scores of the rule-based scorer are equal and not 0,
\* it returns exactly (PRODUCTIVE, 0.52)
C11_TieBreak ==
    (/\ rule_result # NoResult
     /\ DocumentedProductive(rule_text, rule_features)
            = DocumentedUnproductive(rule_text, rule_features)
     /\ DocumentedProductive(rule_text, rule_features) # 0)
    => rule_result = [category |-> PRODUCTIVE, confidence |-> Milli(520)]

\* the scorer has returned (PRODUCTIVE, 0.52) on a tie of 3 to 3: urgency
\* against one unproductive keyword in a text of 20 words or more
C11_Witness ==
    /\ rule_result = [category |-> PRODUCTIVE, confidence |-> Milli(520)]
    /\ DocumentedProductive(rule_text, rule_features) = 3
    /\ DocumentedUnproductive(rule_text, rule_features) = 3

\* the confidence documented for scores that differ:
\* min(0.95, 0.65 + (|difference| / total) * 0.25), raised by 0.10 and capped
\* at 0.98 when the winning score has reached its threshold
DocumentedConfidence(winner, loser, threshold) ==
    LET plain == RatMin(Milli(950),
                        RatAdd(Milli(650),
                               RatMul(Rat(winner - loser, winner + loser), Milli(250))))
    IN  IF winner >= threshold
        THEN RatMin(Milli(980), RatAdd(plain, Milli(100)))
        ELSE plain

\* C20: for scores that differ, built with the documented weights, the
\* rule-based scorer returns the category of the larger score with the
\* documented confidence; the bonus applies exactly from a productive score
\* of 6 and from an unproductive score of 9
C20_RuleConfidence ==
    LET p == DocumentedProductive(rule_text, rule_features)
        u == DocumentedUnproductive(rule_text, rule_features)
    IN  (rule_result # NoResult /\ p # u)
        => rule_result =
              IF p > u
              THEN [category |-> PRODUCTIVE, confidence |-> DocumentedConfidence(p, u, 6)]
              ELSE [category |-> UNPRODUCTIVE, confidence |-> DocumentedConfidence(u, p, 9)]

\* the scorer has returned UNPRODUCTIVE with the bonus: three unproductive
\* keywords in a short text, 10 to 0, confidence min(0.98, 0.90 + 0.10)
C20_Witness ==
    /\ rule_result = [category |-> UNPRODUCTIVE, confidence |-> Milli(980)]
    /\ DocumentedUnproductive(rule_text, rule_features) = 10
    /\ DocumentedProductive(rule_text, rule_features) = 0

\* C12: after reset_metrics has been called once or twice in a row, from any
\* metrics, the metrics are the same empty state: all counters 0, both
\* averages 0, last_updated unset
C12_ResetIdempotent ==
    reset_run.count >= 1
    => metrics = [total_processed |-> 0, productive_count |-> 0,
                  unproductive_count |-> 0, average_processing_time |-> Zero,
                  average_confidence |-> Zero, last_updated |-> FALSE]

\* reset_metrics has been called twice in a row, the first time on metrics
\* that counted a classification
C12_Witness ==
    /\ reset_run.count = 2
    /\ reset_run.from.total_processed > 0
    /\ reset_run.from.last_updated
    /\ metrics = EmailProcessingMetrics

\* C13: a request is rejected before the engine is invoked exactly when its
\* content is empty, has fewer than 10 characters after trimming, or has more
\* than 10,000 characters; the engine sees only content whose trimmed length
\* is at least 10
C13_ContentValidated ==
    /\ http_outcome = "engine"
          => (StrippedLen(http_content) >= 10 /\ ContentLen(http_content) <= 10000)
    /\ (http_outcome # "none"
        /\ (ContentLen(http_content) = 0 \/ StrippedLen(http_content) < 10
            \/ ContentLen(http_content) > 10000))
          => http_outcome = "rejected"

\* the number is a multiple of 0.001
IsMilli(q) == (q.n * 1000) % q.d = 0

\* C14: the confidence of every returned result is rounded to 3 decimals: it
\* is a multiple of 0.001
C14_ConfidenceRounded ==
    \A r \in ReturnedResults : IsMilli(r.confidence)

\* the tasks of a batch that are inside classify_email, and those waiting
\* for the semaphore
Inside(b) == {x \in Slots : tasks[x].batch = b /\ tasks[x].pc \in InFlight}

Waiting(b) == {x \in Slots : tasks[x].batch = b /\ tasks[x].pc = "queued"}

\* C15: at any time at most max_concurrent requests of one batch call are
\* inside classify_email; the others wait until one of them has finished
C15_ConcurrencyCap ==
    \A b \in Batches :
        batches[b].state = "running"
        => /\ Cardinality(Inside(b)) <= max_concurrent
           /\ batches[b].sem = max_concurrent - Cardinality(Inside(b))

\* with a cap of 1, one request of a batch is inside classify_email and the
\* other one waits
C15_Witness ==
    /\ max_concurrent = 1
    /\ \E b \in Batches :
          /\ batches[b].state = "running"
          /\ Cardinality(Inside(b)) = 1
          /\ Cardinality(Waiting(b)) = 1

\* the calls of classify_email in sight, in flight or ended
CallsInSight ==
    {t \in {last} \cup {tasks[x] : x \in Slots} : t.pc \in InFlight \cup {"done"}}

\* C16: the remote classifier is never invoked for a request whose metadata
\* has preferred_model = local, even with use_openai set and the remote
\* classifier available
C16_PreferredLocalSkipsRemote ==
    \A t \in CallsInSight : t.req.preferred_local => ~t.remote_called

\* a request with preferred_model = local and use_openai set was classified
\* locally while the remote classifier was available
C16_Witness ==
    /\ openai_available
    /\ last.pc = "done"
    /\ last.outcome = "ok"
    /\ last.req.preferred_local
    /\ last.req.use_openai
    /\ ~last.remote_called
    /\ (last.ai_called \/ last.rules_called)

\* C17: for a request whose text is empty after cleaning no classifier is
\* invoked, neither the remote one nor the local model nor the rule-based
\* scorer, and the call ends by raising, on every path
C17_EmptyRejectedFirst ==
    \A t \in CallsInSight :
        clean_text(t.req.content) = <<>>
        => /\ ~t.remote_called
           /\ ~t.ai_called
           /\ ~t.rules_called
           /\ (t.pc = "done" => t.outcome = "error")

\* C18: a call for which the remote classifier was asked, available and
\* tried, and whose remote classification came back with none, returned a
\* result classified by the local path (the local model if loaded, else the
\* rule-based scorer) and updated the metrics exactly once
C18_RemoteFailureFallsBack ==
    \A t \in FinishedCalls :
        (t.remote_called /\ t.reply = None)
        => /\ t.outcome = "ok"
           /\ t.ai_called = is_model_loaded
           /\ t.rules_called = ~is_model_loaded
           /\ t.updates = 1

\* C19: a call in which the inference of the local model raised or returned
\* an invalid reply returned a result classified (PRODUCTIVE, 0.5) without
\* the rule-based scorer being invoked, and updated the metrics exactly once
C19_ModelFailureDefault ==
    \A t \in FinishedCalls :
        t.ai_failed
        => /\ t.outcome = "ok"
           /\ t.resp.category = PRODUCTIVE
           /\ t.resp.confidence = Milli(500)
           /\ ~t.rules_called
           /\ t.updates = 1

\* the finished calls that returned a result classified on the local path
LocalResults ==
    {t \in FinishedCalls : t.outcome = "ok" /\ (t.ai_called \/ t.rules_called)}

\* the templates with 'breve', 'hoje' or 'rápid' in them: the first, the
\* second and the fourth of the PRODUCTIVE pool
UrgentProductivePool == {"P1", "P2", "P4"}

\* feature bundles of every urgency
UrgencyBundles == [urgency_score : 0..2]

\* C21: the suggested response of a result of the local path is a template
\* of the pool of the result's category; for a PRODUCTIVE result on a text
\* with urgency_score > 0 it is one of the urgent templates of that pool
\* (there are some); an UNPRODUCTIVE result never gets a PRODUCTIVE template,
\* whatever the urgency of the text
C21_TemplateOfCategory ==
    /\ \A features \in UrgencyBundles :
          generate_response(UNPRODUCTIVE, features) \cap PRODUCTIVE_RESPONSES = {}
    /\ \A t \in LocalResults :
          LET urgency_score == extract_key_features(clean_text(t.req.content)).urgency_score
              suggested == t.resp.suggested_response
          IN  /\ suggested # {}
              /\ t.resp.category = PRODUCTIVE => suggested \subseteq PRODUCTIVE_RESPONSES
              /\ t.resp.category = UNPRODUCTIVE => suggested \subseteq UNPRODUCTIVE_RESPONSES
              /\ t.resp.category = UNPRODUCTIVE => suggested \cap PRODUCTIVE_RESPONSES = {}
              /\ (t.resp.category = PRODUCTIVE /\ urgency_score > 0)
                    => suggested \subseteq UrgentProductivePool
              /\ (t.resp.category = PRODUCTIVE /\ urgency_score = 0)
                    => suggested = PRODUCTIVE_RESPONSES

\* an urgent text was classified PRODUCTIVE on the local path and the
\* response is drawn from the three urgent templates
C21_Witness ==
    /\ last.pc = "done"
    /\ last.outcome = "ok"
    /\ last.rules_called
    /\ last.resp.category = PRODUCTIVE
    /\ extract_key_features(clean_text(last.req.content)).urgency_score > 0
    /\ last.resp.suggested_response = UrgentProductivePool

\* C22: what a caller got from get_metrics keeps the values it had when it
\* was taken, whatever is recorded afterwards
C22_SnapshotIsCopy ==
    snapshot.held => snapshot.seen = snapshot.taken

\* the category names the remote classifier is asked to answer with
RecognisedCategory(reply) ==
    LowerCat(Get(reply, "categoria", "")) \in {PRODUCTIVE, UNPRODUCTIVE}

\* C23: a classifier without a decisive signal decides PRODUCTIVE: the
\* rule-based scorer on equal scores (a total of 0 or a tie), the local
\* model on a failed inference or on a neutral sentiment for a text without
\* override keyword, and the remote path on a reply whose categoria is
\* missing or is not a category name
C23_NoSignalIsProductive ==
    /\ \A text \in RuleTexts :
          LET features == extract_key_features(clean_text(text))
              s == RuleScores(clean_text(text), features)
          IN  s.productive_score = s.unproductive_score
              => classify_with_rules(clean_text(text), features).category = PRODUCTIVE
    /\ \A text \in AiTexts, out \in SentimentOutputs :
          (/\ clean_text(text) # <<>>
           /\ \/ out.kind # "scores"
              \/ out.label = "neutral" /\ ~HasOverrideKeyword(text))
          => classify_with_ai(preprocess_for_classification(clean_text(text)), out).category
                = PRODUCTIVE
    /\ \A t \in FinishedCalls :
          /\ (t.outcome = "ok" /\ t.ai_failed) => t.resp.category = PRODUCTIVE
          /\ (t.outcome = "ok" /\ ~t.ai_called /\ ~t.rules_called /\ ~RecognisedCategory(t.reply))
                => t.resp.category = PRODUCTIVE

\* the calls of _update_metrics made by the calls of classify_email in sight
RECURSIVE UpdatesIn(_, _)
UpdatesIn(ts, x) ==
    IF x = 0 THEN 0 ELSE ts[x].updates + UpdatesIn(ts, x - 1)

\* the calls of _update_metrics made in the step taken: those of the call
\* that acted, which is in its slot or, having ended on its own, in last
UpdatesInStep ==
    UpdatesIn(tasks', MaxTasks) + last'.updates - UpdatesIn(tasks, MaxTasks)

\* the three counters agree and none is negative
CountersConsistent(m) ==
    /\ m.productive_count + m.unproductive_count = m.total_processed
    /\ m.productive_count >= 0
    /\ m.unproductive_count >= 0
    /\ m.total_processed >= 0

\* C24: in every state the counters of the metrics agree
\* (productive_count + unproductive_count = total_processed) and are not
\* negative, and no increment is lost: a step that is not a reset raises
\* total_processed by the number of calls of _update_metrics made in it,
\* whatever other calls are in flight
C24_CountersConsistent ==
    /\ []CountersConsistent(metrics)
    /\ [][\/ ResetMetrics
          \/ \E b \in Batches : BatchCollect(b) /\ metrics' = metrics
          \/ metrics'.total_processed = metrics.total_processed + UpdatesInStep]_vars

\* two calls of a batch were in classify_email together and both are counted
C24_Witness ==
    \E b \in ReturnedBatches :
        /\ Len(batches[b].results) = 2
        /\ \A i \in 1..2 : batches[b].results[i].outcome = "ok"
        /\ \A i \in 1..2 : batches[b].results[i].remote_called
        /\ \A i \in 1..2 : ~batches[b].results[i].alone
        /\ metrics.total_processed = 2
        /\ metrics.productive_count + metrics.unproductive_count = 2

\* C25: in every state the average_confidence of the metrics lies between 0
\* and 1, whatever confidence the remote classifier reports
C25_AverageConfidenceBound ==
    /\ RatLe(Zero, metrics.average_confidence)
    /\ RatLe(metrics.average_confidence, One)

\* C26: a returned result with model_used = openai carries the category and
\* the confidence derived from the remote classifier's reply to that
\* request, and neither the local model nor the rule-based scorer ran for it
C26_OpenaiMeansRemote ==
    \A t \in FinishedCalls :
        (t.outcome = "ok" /\ t.resp.model_used = "openai")
        => /\ t.reply # None
           /\ t.resp.category = RemoteCategory(t.reply)
           /\ t.resp.confidence = RemoteConfidence(t.reply)
           /\ ~t.ai_called
           /\ ~t.rules_called

\* what a caller sees of a finished call: failure, or the category, the
\* confidence and model_used of the result
OutcomeOf(t) ==
    IF t.outcome = "ok"
    THEN [ok |-> TRUE, category |-> t.resp.category, confidence |-> t.resp.confidence,
          model_used |-> t.resp.model_used]
    ELSE [ok |-> FALSE]

\* the outcomes classify_email can have on req in this state of the engine
\* without waiting for the remote classifier
OutcomesOf(req) ==
    {OutcomeOf(r.task) :
        r \in {x \in Enter(NewTask(req, 0, 0, metrics), metrics) : x.task.pc = "done"}}

\* C27: the outcome of a call whose request has preferred_model = local is
\* one the same request has with use_openai not set, whether the remote
\* classifier is available or not
C27_PreferredLocalOutcome ==
    \A t \in FinishedCalls :
        t.req.preferred_local
        => OutcomeOf(t) \in OutcomesOf([t.req EXCEPT !.use_openai = FALSE])

\* C28: the requests of all the batch calls running on the engine that are
\* inside classify_email at the same time are never more than
\* MAX_CONCURRENT_REQUESTS
C28_EngineWideCap ==
    Cardinality(UNION {Inside(b) : b \in Batches}) <= max_concurrent

\* the keywords of a lexicon that stand in a text: those of the language
\* named, those of both languages when the language is unknown
KeywordsIn(lexicon, language, text) ==
    LET keywords == IF language \in DOMAIN lexicon THEN lexicon[language]
                    ELSE lexicon.portuguese \cup lexicon.english
    IN  {kw \in keywords : KwIn(kw, LowerText(text))}

\* C29: whatever language the feature bundle names (portuguese, english or
\* unknown), the rule-based scorer scans a productive and an unproductive
\* lexicon that are not empty, and a text with a keyword of the lexicons in
\* it gets that keyword's weight: 2 in productive_score for a productive
\* keyword, 3 in unproductive_score for an unproductive one
C29_LexiconForEveryLanguage ==
    rule_result # NoResult
    => LET language == Get(rule_features, "language", "portuguese")
           s == RuleScores(rule_text, rule_features)
       IN  /\ Get(productive_keywords, language, {}) # {}
           /\ Get(unproductive_keywords, language, {}) # {}
           /\ KeywordsIn(productive_keywords, language, rule_text) # {}
                 => s.productive_score >= 2
           /\ KeywordsIn(unproductive_keywords, language, rule_text) # {}
                 => s.unproductive_score >= 3

\* C30: every call of classify_multiple_emails returns, and every request
\* of it that waits at the semaphore is admitted, whether the requests
\* before it succeeded or failed
C30_BatchTerminates ==
    /\ \A b \in 1..MaxBatches :
          (batches[b].state = "running") ~> (batches[b].state = "returned")
    /\ \A s \in Slots :
          (tasks[s].pc = "queued") ~> (tasks[s].pc # "queued")

\* with a cap of 1, a batch of two has returned whose first request failed
\* inside classify_email while the second waited, and whose second request
\* was then admitted and classified
C30_Witness ==
    \E b \in ReturnedBatches :
        /\ max_concurrent = 1
        /\ Len(batches[b].results) = 2
        /\ batches[b].results[1].remote_called
        /\ batches[b].results[1].outcome = "error"
        /\ batches[b].results[2].outcome = "ok"

====
